---- MODULE Spec2Model ----
(***************************************************************************)
(* A model of semantic_router: the SemanticRouter index and matcher        *)
(* (router/router.py), the part of EmbeddingVector it uses                 *)
(* (embedding/vector.py), the encoders' encode contract (encoder/*.py) and *)
(* the per-request top_k override of the example server                    *)
(* (example_server.py).                                                    *)
(*                                                                         *)
(* Python values are modelled as follows.                                  *)
(*  - A call either returns or raises: an outcome is a record              *)
(*    [ok, val, err, calls]; calls is the list of the argument lists the   *)
(*    call passed to encoder.encode, in order.                             *)
(*  - A dict is a sequence of [key, val] records in insertion order        *)
(*    (Python dicts iterate in insertion order).                           *)
(*  - An embedding vector is a tuple of integers whose Euclidean norm is   *)
(*    an integer; a cosine similarity dot / (|a| * |b| + 1e-12) is the     *)
(*    record [num |-> dot, den |-> |a| * |b|], compared exactly.           *)
(***************************************************************************)
EXTENDS Integers, Sequences, FiniteSets, TLC

\* ------------------------------------------------------------------ bounds

\* Longest catalog among those that vary the routes' examples (RouteCatalogs).
MaxRoutes == 3
\* Longest catalog among those that vary names and descriptions (BuildCatalogs).
MaxCatalog == 3
\* Largest top_k tried (the smallest is -1).
MaxTopK == 3
\* Longest query sequence passed to route().
MaxBatch == 2
\* Largest top_k a request of the example server overrides with.
MaxOverride == 2
\* Longest vector handed to the EmbeddingVector operations.
MaxDim == 3

\* ------------------------------------------------------------- Python values

Ok(v, c) == [ok |-> TRUE, val |-> v, err |-> "", calls |-> c]
\* A raise: val is the state the callee had built when it raised.
Raise(e, v, c) == [ok |-> FALSE, val |-> v, err |-> e, calls |-> c]

Min(a, b) == IF a <= b THEN a ELSE b

\* The one value that is not a str: the 123 of test_invalid_query_type, written
\* as a tagged name so that it can stand beside strings in one sequence.
NotAString == "<int 123>"

\* isinstance(x, str)
IsStr(x) == x # NotAString

\* ----------------------------------------------------------- EmbeddingVector

RECURSIVE DotFrom(_, _, _)
DotFrom(a, b, i) ==
    IF i > Len(a) THEN 0 ELSE a[i] * b[i] + DotFrom(a, b, i + 1)

\* EmbeddingVector.dot: the sum of the elementwise products.
dot(a, b) == DotFrom(a, b, 1)

\* EmbeddingVector.magnitude: sqrt(sum(x_i^2)); the integer root is exact on
\* the vectors of Embed, whose squared norms are perfect squares.
magnitude(a) ==
    LET n == dot(a, a) IN CHOOSE r \in 0..n : r * r <= n /\ (r + 1) * (r + 1) > n

\* The float 0.0.
Zero == [num |-> 0, den |-> 1]

\* EmbeddingVector.cosine_similarity:
\* dot(other) / (magnitude() * other.magnitude() + 1e-12).  A zero dot product
\* gives the float 0.0 whatever the denominator.
cosine_similarity(a, b) ==
    LET n == dot(a, b) IN
    IF n = 0 THEN Zero ELSE [num |-> n, den |-> magnitude(a) * magnitude(b)]

\* s < t for s = s.num / (s.den + eps), t = t.num / (t.den + eps), eps = 1e-12:
\* s.num * (t.den + eps) < t.num * (s.den + eps); eps * |s.num - t.num| < 1
\* for the small integers of the model, so the integer parts decide first.
Less(s, t) ==
    LET l == s.num * t.den
        r == t.num * s.den
    IN  l < r \/ (l = r /\ s.num < t.num)

\* Python's max(a, b): b only when b > a.
Max2(a, b) == IF Less(a, b) THEN b ELSE a

RECURSIVE SumFrom(_, _)
\* np.sum over a 1-D array.
SumFrom(v, i) == IF i > Len(v) THEN 0 ELSE v[i] + SumFrom(v, i + 1)

Abs(x) == IF x < 0 THEN 0 - x ELSE x

\* numpy's broadcasting of two 1-D arrays: the shapes (n,) and (m,) go together
\* when n = m or when one of them is 1, and the array of length 1 is then
\* repeated along the other.
Broadcastable(a, b) == Len(a) = Len(b) \/ Len(a) = 1 \/ Len(b) = 1
BroadcastLen(a, b) == IF Len(a) = 1 THEN Len(b) ELSE Len(a)
BroadcastAt(v, i) == IF Len(v) = 1 THEN v[1] ELSE v[i]

\* self.vector + other.vector
np_add(a, b) ==
    IF ~Broadcastable(a, b)
    THEN Raise("ValueError: operands could not be broadcast together", <<>>, <<>>)
    ELSE Ok([i \in 1..BroadcastLen(a, b) |-> BroadcastAt(a, i) + BroadcastAt(b, i)], <<>>)

\* self.vector - other.vector
np_subtract(a, b) ==
    IF ~Broadcastable(a, b)
    THEN Raise("ValueError: operands could not be broadcast together", <<>>, <<>>)
    ELSE Ok([i \in 1..BroadcastLen(a, b) |-> BroadcastAt(a, i) - BroadcastAt(b, i)], <<>>)

\* np.dot of two 1-D arrays: the inner product, and no broadcasting.
np_dot(a, b) ==
    IF Len(a) # Len(b) THEN Raise("ValueError: shapes not aligned", <<>>, <<>>)
    ELSE Ok(dot(a, b), <<>>)

\* EmbeddingVector.__add__
vector_add(a, b) == np_add(a, b)

\* EmbeddingVector.__sub__
vector_sub(a, b) == np_subtract(a, b)

\* EmbeddingVector.dot on any two vectors.
vector_dot(a, b) == np_dot(a, b)

\* EmbeddingVector.cosine_similarity on any two vectors: self.dot(other) is
\* evaluated first and raises when the lengths differ.
vector_cosine_similarity(a, b) ==
    LET d == vector_dot(a, b) IN
    IF ~d.ok THEN d ELSE Ok(cosine_similarity(a, b), <<>>)

\* The float x + 1e-12 for an integer x >= 0 is x itself once 1e-12 is below
\* half the spacing of the doubles at x, that is from x = 2^14 on.
AbsorbsEpsilon(x) == x >= 16384

\* A float, as the record [num, den, root, eps]:
\* (num + eps * 1e-12) / (den + eps * 1e-12), or its square root when root.
Distance(n, d, r, e) == [num |-> n, den |-> d, root |-> r, eps |-> e]

\* 1.0 - c for a cosine similarity c = c.num / (c.den + 1e-12); c = 0.0 gives
\* the float 1.0.
OneMinus(c) ==
    IF c.num = 0 THEN Distance(1, 1, FALSE, 0)
    ELSE IF AbsorbsEpsilon(c.den) THEN Distance(c.den - c.num, c.den, FALSE, 0)
    ELSE Distance(c.den - c.num, c.den, FALSE, 1)

\* The metrics distance() is called with: the three it supports and one it
\* does not (tests/embedding/test_vector.py).
Metrics == {"euclidean", "cosine", "manhattan", "chebyshev"}
SupportedMetrics == {"euclidean", "cosine", "manhattan"}

\* EmbeddingVector.distance(other, metric)
distance(a, b, metric) ==
    IF metric = "euclidean"
    THEN LET d == np_subtract(a, b) IN
         IF ~d.ok THEN d ELSE Ok(Distance(dot(d.val, d.val), 1, TRUE, 0), <<>>)
    ELSE IF metric = "cosine"
    THEN LET c == vector_cosine_similarity(a, b) IN
         IF ~c.ok THEN c ELSE Ok(OneMinus(c.val), <<>>)
    ELSE IF metric = "manhattan"
    THEN LET d == np_subtract(a, b) IN
         IF ~d.ok THEN d
         ELSE Ok(Distance(SumFrom([i \in 1..Len(d.val) |-> Abs(d.val[i])], 1), 1, FALSE, 0),
                 <<>>)
    ELSE Raise("ValueError: Unsupported metric", <<>>, <<>>)

\* ------------------------------------------------------------------ encoders

\* The embedding model: a fixed table from input to vector (an encoder is
\* deterministic for a fixed model).  Every squared norm is a perfect square.
Embed ==
    [x \in {"hello", "world", "bye", "hi", NotAString,
            "Why don't scientists trust atoms? Because they make up everything!",
            "What do you call fake spaghetti? An impasta.",
            "What's the weather like today?",
            "Is it going to rain tomorrow?"} |->
        CASE x = "hello" -> <<1, 0>>
          [] x = "world" -> <<0, 1>>
          [] x = "bye" -> <<-1, 0>>
          [] x = "hi" -> <<3, 4>>
          [] x = "Why don't scientists trust atoms? Because they make up everything!"
               -> <<4, 3>>
          [] x = "What do you call fake spaghetti? An impasta." -> <<3, 4>>
          [] x = "What's the weather like today?" -> <<-3, 4>>
          [] x = "Is it going to rain tomorrow?" -> <<-4, 3>>
          [] OTHER -> <<0, 0>>]

\* The encoder objects handed to SemanticRouter: the repository's
\* HuggingFaceEncoder, a DenseEncoder subclass that takes List[Any] as the base
\* class declares (the tests' DummyEncoder is one), an object that has an
\* encode method but is no DenseEncoder, and a plain object().
Encoders == {"HuggingFaceEncoder", "DenseEncoder", "DuckEncoder", "object"}

\* isinstance(encoder, DenseEncoder)
IsDenseEncoder(enc) == enc \in {"HuggingFaceEncoder", "DenseEncoder"}

EncodeAll(inputs) == [i \in 1..Len(inputs) |-> Embed[inputs[i]]]

\* encoder.encode(inputs), the call included in calls.  HuggingFaceEncoder
\* raises TypeError when an element is not a str; object() has no encode.
encode(enc, inputs, calls) ==
    LET c == Append(calls, inputs) IN
    IF enc = "object" THEN Raise("AttributeError", <<>>, calls)
    ELSE IF enc = "HuggingFaceEncoder" /\ \E i \in 1..Len(inputs) : ~IsStr(inputs[i])
         THEN Raise("TypeError", <<>>, c)
    ELSE Ok(EncodeAll(inputs), c)

\* SemanticRouter._encode_query: self.encoder.encode(list(queries)).
encode_query(enc, qs, calls) == encode(enc, qs, calls)

\* ---------------------------------------------------------------------- dict

DictHas(d, k) == \E i \in 1..Len(d) : d[i].key = k

\* d.get(k, default)
DictGet(d, k, default) ==
    IF DictHas(d, k) THEN d[CHOOSE i \in 1..Len(d) : d[i].key = k].val ELSE default

\* d[k] = v: an existing key keeps its place, a new key goes last.
DictSet(d, k, v) ==
    IF DictHas(d, k)
    THEN [i \in 1..Len(d) |-> IF d[i].key = k THEN [key |-> k, val |-> v] ELSE d[i]]
    ELSE Append(d, [key |-> k, val |-> v])

\* ----------------------------------------------------- SemanticRouter.__init__

\* len(xs) != len(set(xs))
HasDuplicates(xs) == Cardinality({xs[i] : i \in 1..Len(xs)}) # Len(xs)

RECURSIVE EncodeRoutes(_, _, _, _, _)
\* The loop of _initialize_router_map: for route in self.routes.
EncodeRoutes(enc, rts, i, map, calls) ==
    IF i > Len(rts) THEN Ok(map, calls)
    ELSE LET e == encode_query(enc, rts[i].examples, calls) IN
         IF ~e.ok THEN Raise(e.err, map, e.calls)
         ELSE EncodeRoutes(enc, rts, i + 1,
                  DictSet(map, rts[i].name,
                          [route |-> rts[i], encoded_examples |-> e.val]),
                  e.calls)

\* _initialize_router_map without its check for duplicate descriptions.
initialize_router_map_NoDescriptionCheck(enc, rts) ==
    IF Len(rts) = 0 THEN Raise("ValueError: no routes", <<>>, <<>>)
    ELSE IF HasDuplicates([i \in 1..Len(rts) |-> rts[i].name])
         THEN Raise("ValueError: duplicate names", <<>>, <<>>)
    ELSE IF ~IsDenseEncoder(enc) THEN Raise("TypeError", <<>>, <<>>)
    ELSE EncodeRoutes(enc, rts, 1, <<>>, <<>>)

\* _initialize_router_map with the encoder checked after the examples are
\* encoded instead of before.
initialize_router_map_EncodeFirst(enc, rts) ==
    IF Len(rts) = 0 THEN Raise("ValueError: no routes", <<>>, <<>>)
    ELSE IF HasDuplicates([i \in 1..Len(rts) |-> rts[i].name])
         THEN Raise("ValueError: duplicate names", <<>>, <<>>)
    ELSE IF HasDuplicates([i \in 1..Len(rts) |-> rts[i].description])
         THEN Raise("ValueError: duplicate descriptions", <<>>, <<>>)
    ELSE LET r == EncodeRoutes(enc, rts, 1, <<>>, <<>>) IN
         IF r.ok /\ ~IsDenseEncoder(enc) THEN Raise("TypeError", r.val, r.calls)
         ELSE r

\* SemanticRouter._initialize_router_map, on self.router_map = {}.
initialize_router_map(enc, rts) ==
    IF Len(rts) = 0 THEN Raise("ValueError: no routes", <<>>, <<>>)
    ELSE IF HasDuplicates([i \in 1..Len(rts) |-> rts[i].name])
         THEN Raise("ValueError: duplicate names", <<>>, <<>>)
    ELSE IF HasDuplicates([i \in 1..Len(rts) |-> rts[i].description])
         THEN Raise("ValueError: duplicate descriptions", <<>>, <<>>)
    ELSE IF ~IsDenseEncoder(enc) THEN Raise("TypeError", <<>>, <<>>)
    ELSE EncodeRoutes(enc, rts, 1, <<>>, <<>>)

\* ------------------------------------- SemanticRouter._find_top_k_closest_routes

RECURSIVE MaxFrom(_, _, _)
\* Python's max over an iterable: the first of the largest elements.
MaxFrom(xs, i, best) ==
    IF i > Len(xs) THEN best ELSE MaxFrom(xs, i + 1, Max2(best, xs[i]))

\* max(encoded_query.cosine_similarity(example) for example in examples):
\* max() of an empty iterable raises ValueError.
ExampleMax(qv, examples) ==
    IF Len(examples) = 0 THEN Raise("ValueError: max() arg is an empty sequence", <<>>, <<>>)
    ELSE LET sims == [i \in 1..Len(examples) |-> cosine_similarity(qv, examples[i])]
         IN  Ok(MaxFrom(sims, 2, sims[1]), <<>>)

\* best_scores[route_name] = max(score, best_scores.get(route_name, 0.0))
UpdateBest(best, name, score) ==
    DictSet(best, name, Max2(score, DictGet(best, name, Zero)))

RECURSIVE ScoreLoop(_, _, _, _, _)
\* for encoded_query in encoded_queries: for route_name, data in router_map.items()
ScoreLoop(eqs, map, qi, ri, best) ==
    IF qi > Len(eqs) THEN Ok(best, <<>>)
    ELSE IF ri > Len(map) THEN ScoreLoop(eqs, map, qi + 1, 1, best)
    ELSE LET m == ExampleMax(eqs[qi], map[ri].val.encoded_examples) IN
         IF ~m.ok THEN Raise(m.err, best, <<>>)
         ELSE ScoreLoop(eqs, map, qi, ri + 1, UpdateBest(best, map[ri].key, m.val))

RECURSIVE InsertDescBeforeTies(_, _)
\* InsertDesc with item put before the items it ties with: a selection that
\* lets the last-defined route win a tie.
InsertDescBeforeTies(sorted, item) ==
    IF sorted = <<>> THEN <<item>>
    ELSE IF ~Less(item.val, Head(sorted).val) THEN <<item>> \o sorted
    ELSE <<Head(sorted)>> \o InsertDescBeforeTies(Tail(sorted), item)

RECURSIVE InsertDesc(_, _)
\* item into a list sorted by descending score, after the items it ties with.
InsertDesc(sorted, item) ==
    IF sorted = <<>> THEN <<item>>
    ELSE IF Less(Head(sorted).val, item.val) THEN <<item>> \o sorted
    ELSE <<Head(sorted)>> \o InsertDesc(Tail(sorted), item)

RECURSIVE SortedDesc(_, _, _)
\* sorted(items, key=score, reverse=True): stable, so equal scores keep the
\* order of items.
SortedDesc(items, i, acc) ==
    IF i > Len(items) THEN acc ELSE SortedDesc(items, i + 1, InsertDesc(acc, items[i]))

\* heapq.nlargest(n, items, key=lambda item: item[1]): "equivalent to
\* sorted(iterable, key=key, reverse=True)[:n]", and [] for n < 1.
nlargest(n, items) ==
    IF n < 1 THEN <<>>
    ELSE SubSeq(SortedDesc(items, 1, <<>>), 1, Min(n, Len(items)))

\* The returned list: rank idx, route name and score of each top route.
Ranked(top) ==
    [i \in 1..Len(top) |->
        [rank |-> i - 1, route_name |-> top[i].key, cosine_similarity |-> top[i].val]]

\* SemanticRouter._find_top_k_closest_routes(queries).
find_top_k_closest_routes(enc, map, k, qs, calls) ==
    LET e == encode_query(enc, qs, calls) IN
    IF ~e.ok THEN Raise(e.err, <<>>, e.calls)
    ELSE LET b == ScoreLoop(e.val, map, 1, 1, <<>>) IN
         IF ~b.ok THEN Raise(b.err, <<>>, e.calls)
         ELSE Ok(Ranked(nlargest(k, b.val)), e.calls)

\* ------------------------------------------------------- SemanticRouter.route

\* The values passed as queries: a str, a Sequence that is not a str (list,
\* tuple) with its elements, or anything else (123, None, a set).
\* isinstance(queries, str)
IsStrInput(q) == q.kind = "str"
\* isinstance(queries, Sequence)
IsSequenceInput(q) == q.kind \in {"str", "seq"}

RECURSIVE RouteEachWholeBatch(_, _, _, _, _, _, _)
\* RouteEach with the whole batch passed to _find_top_k_closest_routes for each
\* query (queries in place of [query]).
RouteEachWholeBatch(enc, map, k, qs, i, acc, calls) ==
    IF i > Len(qs) THEN Ok(acc, calls)
    ELSE LET r == find_top_k_closest_routes(enc, map, k, qs, calls) IN
         IF ~r.ok THEN Raise(r.err, <<>>, r.calls)
         ELSE RouteEachWholeBatch(enc, map, k, qs, i + 1,
                        Append(acc, [query |-> qs[i], route |-> r.val]), r.calls)

RECURSIVE RouteEach(_, _, _, _, _, _, _)
\* The list comprehension of route: one _find_top_k_closest_routes([query])
\* per query, in order; the first raise ends it.
RouteEach(enc, map, k, qs, i, acc, calls) ==
    IF i > Len(qs) THEN Ok(acc, calls)
    ELSE LET r == find_top_k_closest_routes(enc, map, k, <<qs[i]>>, calls) IN
         IF ~r.ok THEN Raise(r.err, <<>>, r.calls)
         ELSE RouteEach(enc, map, k, qs, i + 1,
                        Append(acc, [query |-> qs[i], route |-> r.val]), r.calls)

\* SemanticRouter.route(queries): q.text is the text of a str, q.elems the
\* elements of a sequence.
route(enc, map, k, q) ==
    LET qs == IF IsStrInput(q) THEN <<q.text>> ELSE q.elems IN
    IF ~IsSequenceInput(q) THEN Raise("TypeError", <<>>, <<>>)
    ELSE RouteEach(enc, map, k, qs, 1, <<>>, <<>>)

\* ------------------------------------------------------------------- inputs

\* Route(name, description, examples)
Route(n, d, ex) == [name |-> n, description |-> d, examples |-> ex]

RECURSIVE SeqsUpTo(_, _)
\* The sequences over S of length 0..n.
SeqsUpTo(S, n) ==
    IF n = 0 THEN {<<>>}
    ELSE LET shorter == SeqsUpTo(S, n - 1) IN
         shorter \cup {Append(t, x) : t \in {u \in shorter : Len(u) = n - 1}, x \in S}

\* Catalogs that vary names and descriptions, duplicates included (the names
\* and descriptions of tests/router/test_router.py).
BuildRoutes ==
    {Route(n, d, <<"hello">>) : n \in {"foo", "bar", "baz"},
                                d \in {"first route", "second route", "third route"}}
BuildCatalogs == SeqsUpTo(BuildRoutes, MaxCatalog)

\* Catalogs that vary the examples: route i is named RouteNames[i], its
\* examples are one of ExamplePool (none, one, several; with the queries of
\* QueryTexts they give similarities below, at and above 0, and ties).
RouteNames == <<"foo", "bar", "baz", "qux", "quux">>
ExamplePool == {<<>>, <<"hello">>, <<"bye">>, <<"bye", "hi">>}
RouteCatalogs ==
    {[i \in 1..Len(exs) |-> Route(RouteNames[i], RouteNames[i], exs[i])] :
        exs \in SeqsUpTo(ExamplePool, MaxRoutes)}

\* The top_k of __init__ when the caller gives none.
DefaultTopK == 5

TopKs == -1..MaxTopK

QueryTexts == {"hello", "bye"}

\* What callers pass to route(): a str, a list of strs, a list with an element
\* that is no str ([123], ["hello", 123]), and the bare 123.
QueryInputs ==
    {[kind |-> "str", text |-> t, elems |-> <<>>] : t \in QueryTexts}
    \cup {[kind |-> "seq", text |-> "", elems |-> qs] :
             qs \in SeqsUpTo(QueryTexts, MaxBatch)
                    \cup {<<NotAString>>, <<"hello", NotAString>>}}
    \cup {[kind |-> "other", text |-> "", elems |-> <<>>]}

\* The vectors handed to the EmbeddingVector operations: the arrays of length
\* 1..MaxDim over Components whose norm is an integer (np.linalg.norm is then
\* exact), among them the zero vectors and vectors whose squared norm is 2^14.
Components == {0, 3, 4, 128}
Vectors ==
    {v \in SeqsUpTo(Components, MaxDim) :
        Len(v) >= 1 /\ magnitude(v) * magnitude(v) = dot(v, v)}

\* -------------------------------------------------------------------- state

VARIABLES
    routes,        \* the routes argument, then self.routes
    encoder,       \* the encoder argument, then self.encoder
    top_k,         \* the top_k argument, then self.top_k
    router_map,    \* self.router_map
    status,        \* "new": __init__ not run; "ready": it returned; "failed": it raised
    error,         \* what __init__ raised
    encode_calls,  \* the encoder.encode calls of the last operation
    queries,       \* the argument of the last route() call
    result,        \* the outcome of the route() call the caller has not taken yet
    pc,            \* example_server: the statement each caller's handler is at
    req,           \* example_server: the request each caller's handler serves
    local_k,       \* example_server: each handler's local top_k
    resp,          \* example_server: the match lists each handler has got
    interfered,    \* another caller assigned SEM_ROUTER.top_k since this one did
    self_vector,   \* EmbeddingVector: the vector an operation is called on
    other_vector,  \* EmbeddingVector: its argument other
    operation,     \* EmbeddingVector: the operation called, and its metric
    outcome        \* EmbeddingVector: what the operation returned or raised

routerVars == <<routes, encoder, router_map, status, error, encode_calls,
                queries, result>>
serverVars == <<pc, req, local_k, resp, interfered>>
vectorVars == <<self_vector, other_vector, operation, outcome>>
vars == <<routes, encoder, top_k, router_map, status, error, encode_calls,
          queries, result, pc, req, local_k, resp, interfered,
          self_vector, other_vector, operation, outcome>>

\* ------------------------------------------------------------ example_server

\* The callers that share SEM_ROUTER.
Callers == {"a", "b"}

\* DEFAULT_TOP_K
DEFAULT_TOP_K == 2

\* ROUTES
ROUTES ==
    <<Route("joke", "A route to tell a light-hearted or funny joke.",
            <<"Why don't scientists trust atoms? Because they make up everything!",
              "What do you call fake spaghetti? An impasta.">>),
      Route("weather", "A route to talk about the weather and forecasts.",
            <<"What's the weather like today?", "Is it going to rain tomorrow?">>)>>

\* req.top_k when the request gives none (None).
NoOverride == 0

\* The requests: POST /route with a query, POST /route/batch with queries, each
\* with top_k absent or >= 1 (Field(None, ge=1)).
Requests ==
    {[kind |-> "route", top_k |-> k, queries |-> <<"hello">>] : k \in 0..MaxOverride}
    \cup {[kind |-> "batch", top_k |-> k, queries |-> <<"hello", "bye">>] :
             k \in 0..MaxOverride}

NoRequest == [kind |-> "none", top_k |-> NoOverride, queries |-> <<>>]

\* req.top_k or SEM_ROUTER.top_k
Override(reqk, current) == IF reqk = NoOverride THEN current ELSE reqk

\* No handler is running.
NoServer ==
    /\ pc = [c \in Callers |-> "idle"]
    /\ req = [c \in Callers |-> NoRequest]
    /\ local_k = [c \in Callers |-> NoOverride]
    /\ resp = [c \in Callers |-> <<>>]
    /\ interfered = [c \in Callers |-> FALSE]

\* No vector operation has been called.
NoOperation == [name |-> "none", metric |-> ""]
NoScalar == Distance(0, 1, FALSE, 0)
NoOutcome == [ok |-> FALSE, err |-> "", vector |-> <<>>, scalar |-> NoScalar]

\* What a caller holds after an operation that returns an EmbeddingVector
\* (r.val is its array) or raises.
VectorOutcome(r) ==
    [ok |-> r.ok, err |-> r.err, vector |-> IF r.ok THEN r.val ELSE <<>>,
     scalar |-> NoScalar]

\* What a caller holds after an operation that returns a float (x is its
\* value) or raises.
ScalarOutcome(r, x) ==
    [ok |-> r.ok, err |-> r.err, vector |-> <<>>, scalar |-> IF r.ok THEN x ELSE NoScalar]
NoVector ==
    /\ self_vector = <<>>
    /\ other_vector = <<>>
    /\ operation = NoOperation
    /\ outcome = NoOutcome

NoQueries == [kind |-> "none", text |-> "", elems |-> <<>>]
NoResult == [called |-> FALSE, ok |-> FALSE, val |-> <<>>, err |-> ""]

\* The arguments of SemanticRouter(encoder, routes, top_k): a catalog of
\* BuildCatalogs with the default top_k, or one of RouteCatalogs with any top_k.
Init ==
    /\ \/ routes \in BuildCatalogs /\ top_k = DefaultTopK
       \/ routes \in RouteCatalogs /\ top_k \in TopKs
    /\ encoder \in Encoders
    /\ router_map = <<>>
    /\ status = "new"
    /\ error = ""
    /\ encode_calls = <<>>
    /\ queries = NoQueries
    /\ result = NoResult
    /\ NoServer
    /\ NoVector

\* SemanticRouter(encoder, routes, top_k)
Construct ==
    /\ status = "new"
    /\ LET r == initialize_router_map(encoder, routes) IN
        /\ status' = IF r.ok THEN "ready" ELSE "failed"
        /\ error' = r.err
        /\ router_map' = r.val
        /\ encode_calls' = r.calls
    /\ UNCHANGED <<routes, encoder, top_k, queries, result>>
    /\ UNCHANGED <<serverVars, vectorVars>>

\* RouteCall with a route() that moves the index entry it scored first to the
\* end of self.router_map.
RouteCallReorderingIndex ==
    /\ status = "ready"
    /\ ~result.called
    /\ \E q \in QueryInputs :
        LET r == route(encoder, router_map, top_k, q) IN
        /\ queries' = q
        /\ result' = [called |-> TRUE, ok |-> r.ok, val |-> r.val, err |-> r.err]
        /\ encode_calls' = r.calls
    /\ router_map' = Tail(router_map) \o <<Head(router_map)>>
    /\ UNCHANGED <<routes, encoder, top_k, status, error>>
    /\ UNCHANGED <<serverVars, vectorVars>>

\* router.route(q)
RouteCall ==
    /\ status = "ready"
    /\ ~result.called
    /\ \E q \in QueryInputs :
        LET r == route(encoder, router_map, top_k, q) IN
        /\ queries' = q
        /\ result' = [called |-> TRUE, ok |-> r.ok, val |-> r.val, err |-> r.err]
        /\ encode_calls' = r.calls
    /\ UNCHANGED <<routes, encoder, top_k, router_map, status, error>>
    /\ UNCHANGED <<serverVars, vectorVars>>

\* The caller takes what route() returned or raised, and goes on.
TakeResult ==
    /\ result.called
    /\ queries' = NoQueries
    /\ result' = NoResult
    /\ encode_calls' = <<>>
    /\ UNCHANGED <<routes, encoder, top_k, router_map, status, error>>
    /\ UNCHANGED <<serverVars, vectorVars>>

\* router.top_k = k
SetTopK ==
    /\ status = "ready"
    /\ ~result.called
    /\ \E k \in TopKs : top_k' = k
    /\ encode_calls' = <<>>
    /\ UNCHANGED <<routes, encoder, router_map, status, error, queries, result>>
    /\ UNCHANGED <<serverVars, vectorVars>>

Next == Construct \/ RouteCall \/ TakeResult \/ SetTopK

Spec == Init /\ [][Next]_vars

\* ------------------------------------------- example_server, concurrent callers

\* The module-level SEM_ROUTER = SemanticRouter(ENCODER, ROUTES, DEFAULT_TOP_K),
\* and no request yet.
InitServer ==
    /\ routes = ROUTES
    /\ encoder = "HuggingFaceEncoder"
    /\ top_k = DEFAULT_TOP_K
    /\ LET r == initialize_router_map("HuggingFaceEncoder", ROUTES) IN
        /\ router_map = r.val
        /\ status = IF r.ok THEN "ready" ELSE "failed"
        /\ error = r.err
    /\ encode_calls = <<>>
    /\ queries = NoQueries
    /\ result = NoResult
    /\ NoServer
    /\ NoVector

\* A request reaches route_query or route_batch on caller c.
Receive(c) ==
    /\ status = "ready"
    /\ pc[c] \in {"idle", "done", "raised"}
    /\ \E r \in Requests : req' = [req EXCEPT ![c] = r]
    /\ pc' = [pc EXCEPT ![c] = "read"]
    /\ local_k' = [local_k EXCEPT ![c] = NoOverride]
    /\ resp' = [resp EXCEPT ![c] = <<>>]
    /\ interfered' = [interfered EXCEPT ![c] = FALSE]
    /\ UNCHANGED <<top_k, routerVars, vectorVars>>

\* top_k = req.top_k or SEM_ROUTER.top_k
ReadTopK(c) ==
    /\ pc[c] = "read"
    /\ local_k' = [local_k EXCEPT ![c] = Override(req[c].top_k, top_k)]
    /\ pc' = [pc EXCEPT ![c] = "set"]
    /\ UNCHANGED <<top_k, routerVars, vectorVars, req, resp, interfered>>

\* SetOverride without the assignment to SEM_ROUTER.top_k.
SetOverrideNoWrite(c) ==
    /\ pc[c] = "set"
    /\ interfered' = [interfered EXCEPT ![c] = FALSE]
    /\ pc' = [pc EXCEPT ![c] = "query"]
    /\ UNCHANGED <<top_k, routerVars, vectorVars, req, local_k, resp>>

\* SEM_ROUTER.top_k = top_k
SetOverride(c) ==
    /\ pc[c] = "set"
    /\ top_k' = local_k[c]
    /\ interfered' = [d \in Callers |-> d # c]
    /\ pc' = [pc EXCEPT ![c] = "query"]
    /\ UNCHANGED <<routerVars, vectorVars, req, local_k, resp>>

\* SEM_ROUTER.route(...): the next query of the request is routed, with the
\* self.top_k it finds (heapq.nlargest(self.top_k, ...), once per query).
Query(c) ==
    /\ pc[c] = "query"
    /\ LET q == req[c].queries[Len(resp[c]) + 1]
           r == route(encoder, router_map, top_k,
                      [kind |-> "str", text |-> q, elems |-> <<>>])
       IN  /\ r.ok
           /\ resp' = [resp EXCEPT ![c] = Append(@, r.val[1].route)]
           /\ pc' = [pc EXCEPT ![c] =
                        IF Len(resp[c]) + 1 = Len(req[c].queries) THEN "reset" ELSE "query"]
    /\ UNCHANGED <<top_k, routerVars, vectorVars, req, local_k, interfered>>

\* RouteRaises with the reset written after the try block instead of in a
\* finally: the exception leaves the handler and the reset is never run.
RouteRaisesPastReset(c) ==
    /\ pc[c] = "query"
    /\ resp' = [resp EXCEPT ![c] = <<>>]
    /\ pc' = [pc EXCEPT ![c] = "raised"]
    /\ UNCHANGED <<top_k, routerVars, vectorVars, req, local_k, interfered>>

\* SEM_ROUTER.route(...) raises (the encoder fails on the query): no match
\* list is kept and control passes to the finally block.
RouteRaises(c) ==
    /\ pc[c] = "query"
    /\ resp' = [resp EXCEPT ![c] = <<>>]
    /\ pc' = [pc EXCEPT ![c] = "unwind"]
    /\ UNCHANGED <<top_k, routerVars, vectorVars, req, local_k, interfered>>

\* RouteResponse(...) or BatchRouteResponse(...) raises (the response does
\* not validate): no response is kept and control passes to the finally block.
ResponseRaises(c) ==
    /\ pc[c] = "reset"
    /\ resp' = [resp EXCEPT ![c] = <<>>]
    /\ pc' = [pc EXCEPT ![c] = "unwind"]
    /\ UNCHANGED <<top_k, routerVars, vectorVars, req, local_k, interfered>>

\* finally: SEM_ROUTER.top_k = DEFAULT_TOP_K; then the response is returned,
\* or the exception that led here leaves the handler.
Reset(c) ==
    /\ pc[c] \in {"reset", "unwind"}
    /\ top_k' = DEFAULT_TOP_K
    /\ interfered' = [d \in Callers |-> IF d = c THEN interfered[c] ELSE TRUE]
    /\ pc' = [pc EXCEPT ![c] = IF pc[c] = "reset" THEN "done" ELSE "raised"]
    /\ UNCHANGED <<routerVars, vectorVars, req, local_k, resp>>

\* The handlers' statements, run by callers that interleave between statements.
NextConcurrent ==
    \E c \in Callers :
        Receive(c) \/ ReadTopK(c) \/ SetOverride(c) \/ Query(c) \/ Reset(c)

SpecConcurrent == InitServer /\ [][NextConcurrent]_vars

\* ------------------------------------------- example_server, on its event loop

\* Caller c's handler has started and not finished.
Running(c) == pc[c] \notin {"idle", "done", "raised"}

\* The event loop starts a handler: uvicorn runs one process (workers=1) with
\* one loop, and the handlers are async def without an await, so the loop
\* takes up a request only when no handler is running.
Dispatch(c) ==
    /\ \A d \in Callers : ~Running(d)
    /\ Receive(c)

\* The server as uvicorn runs it: a handler that has started runs to its end,
\* by returning or by raising, before another starts.
NextServer ==
    \E c \in Callers :
        \/ Dispatch(c)
        \/ ReadTopK(c)
        \/ SetOverride(c)
        \/ Query(c)
        \/ RouteRaises(c)
        \/ ResponseRaises(c)
        \/ Reset(c)

SpecServer == InitServer /\ [][NextServer]_vars

\* ------------------------------------------------- EmbeddingVector operations

\* No router and no server: only the two vectors of an operation.
InitVector ==
    /\ routes = <<>>
    /\ encoder = "object"
    /\ top_k = DefaultTopK
    /\ router_map = <<>>
    /\ status = "new"
    /\ error = ""
    /\ encode_calls = <<>>
    /\ queries = NoQueries
    /\ result = NoResult
    /\ NoServer
    /\ self_vector \in Vectors
    /\ other_vector \in Vectors
    /\ operation = NoOperation
    /\ outcome = NoOutcome

\* self_vector + other_vector
CallAdd ==
    /\ operation = NoOperation
    /\ operation' = [name |-> "add", metric |-> ""]
    /\ outcome' = VectorOutcome(vector_add(self_vector, other_vector))
    /\ UNCHANGED <<self_vector, other_vector, top_k, routerVars, serverVars>>

\* self_vector - other_vector
CallSub ==
    /\ operation = NoOperation
    /\ operation' = [name |-> "sub", metric |-> ""]
    /\ outcome' = VectorOutcome(vector_sub(self_vector, other_vector))
    /\ UNCHANGED <<self_vector, other_vector, top_k, routerVars, serverVars>>

\* self_vector.dot(other_vector)
CallDot ==
    /\ operation = NoOperation
    /\ operation' = [name |-> "dot", metric |-> ""]
    /\ LET r == vector_dot(self_vector, other_vector) IN
        outcome' = ScalarOutcome(r, Distance(r.val, 1, FALSE, 0))
    /\ UNCHANGED <<self_vector, other_vector, top_k, routerVars, serverVars>>

\* self_vector.cosine_similarity(other_vector)
CallCosineSimilarity ==
    /\ operation = NoOperation
    /\ operation' = [name |-> "cosine_similarity", metric |-> ""]
    /\ LET r == vector_cosine_similarity(self_vector, other_vector) IN
        outcome' = ScalarOutcome(r, r.val)
    /\ UNCHANGED <<self_vector, other_vector, top_k, routerVars, serverVars>>

\* self_vector.distance(other_vector, metric)
CallDistance ==
    /\ operation = NoOperation
    /\ \E metric \in Metrics :
        /\ operation' = [name |-> "distance", metric |-> metric]
        /\ LET r == distance(self_vector, other_vector, metric) IN
            outcome' = ScalarOutcome(r, r.val)
    /\ UNCHANGED <<self_vector, other_vector, top_k, routerVars, serverVars>>

NextVector == CallAdd \/ CallSub \/ CallDot \/ CallCosineSimilarity \/ CallDistance

SpecVector == InitVector /\ [][NextVector]_vars

\* ------------------------------------------------------- what the claims use

\* The catalog is not empty and no two routes share a name or a description.
ValidCatalog ==
    /\ Len(routes) > 0
    /\ \A i, j \in 1..Len(routes) :
          i # j => /\ routes[i].name # routes[j].name
                   /\ routes[i].description # routes[j].description

SharedName == \E i, j \in 1..Len(routes) : i # j /\ routes[i].name = routes[j].name

SharedDescription ==
    \E i, j \in 1..Len(routes) : i # j /\ routes[i].description = routes[j].description

\* The last route() call was given a str or a sequence of strs.
WellFormedQuery ==
    \/ queries.kind = "str"
    \/ queries.kind = "seq" /\ \A i \in 1..Len(queries.elems) : IsStr(queries.elems[i])

\* The query strings of the last route() call, in order.
QueryList == IF queries.kind = "str" THEN <<queries.text>> ELSE queries.elems

\* The similarities of query text q to the examples of a route.
SimsOf(q, rt) ==
    {cosine_similarity(Embed[q], Embed[rt.examples[i]]) : i \in 1..Len(rt.examples)}

\* The largest element of a non-empty set of scores.
Largest(S) == CHOOSE s \in S : \A t \in S : ~Less(s, t)

\* The catalog position of the route called name.
IndexOf(name) == CHOOSE i \in 1..Len(routes) : routes[i].name = name

\* route() returned, and the match lists it returned.
Returned == result.called /\ result.ok
MatchLists == [i \in 1..Len(result.val) |-> result.val[i].route]

\* ------------------------------------------------------------------- claims

\* C1: for every non-empty catalog with unique names and descriptions, a
\* DenseEncoder and every top_k >= 1, construction succeeds and route() returns,
\* for each query, exactly min(top_k, number of routes) matches, ranked
\* 0, 1, 2, ... in list order, with scores that never increase down the list.
C1_RouteReturnsTopK ==
    (ValidCatalog /\ IsDenseEncoder(encoder)) =>
        /\ status # "new" => status = "ready"
        /\ (result.called /\ WellFormedQuery /\ top_k >= 1) =>
              /\ result.ok
              /\ Len(result.val) = Len(QueryList)
              /\ \A i \in 1..Len(result.val) :
                    LET m == MatchLists[i] IN
                    /\ Len(m) = Min(top_k, Len(routes))
                    /\ \A j \in 1..Len(m) : m[j].rank = j - 1
                    /\ \A j \in 1..(Len(m) - 1) :
                          ~Less(m[j].cosine_similarity, m[j + 1].cosine_similarity)

\* C2: construction fails with an error when the catalog is empty, when two
\* routes share a name or when two routes share a description, whatever the
\* other routes are; the encoder is never called and no index entry is made.
C2_InvalidCatalogFails ==
    (status # "new" /\ (Len(routes) = 0 \/ SharedName \/ SharedDescription)) =>
        /\ status = "failed"
        /\ error \in {"ValueError: no routes", "ValueError: duplicate names",
                       "ValueError: duplicate descriptions"}
        /\ Len(routes) = 0 => error = "ValueError: no routes"
        /\ encode_calls = <<>>
        /\ router_map = <<>>

\* C2 witness: a three-route catalog whose first and last routes share a
\* description, all names distinct, handed to a DenseEncoder, has failed.
C2_Witness ==
    /\ status = "failed"
    /\ Len(routes) = 3
    /\ ~SharedName
    /\ routes[1].description = routes[3].description
    /\ routes[1].description # routes[2].description
    /\ IsDenseEncoder(encoder)

\* C3: for every query and every route in its match list, the reported
\* cosine_similarity is the largest similarity of the query vector to the
\* route's example vectors, also when all of them are negative.
C3_ScoreIsMaxSimilarity ==
    (Returned /\ WellFormedQuery) =>
        \A i \in 1..Len(result.val) :
            \A j \in 1..Len(MatchLists[i]) :
                LET m == MatchLists[i][j]
                    rt == routes[IndexOf(m.route_name)]
                IN  rt.examples # <<>> =>
                        m.cosine_similarity = Largest(SimsOf(QueryList[i], rt))

\* C4: a catalog with a route that has no examples is legal: construction
\* succeeds, route() returns a result for every query, the route without
\* examples is scored 0 and never ranks above a route with an example that
\* scores above 0.
C4_EmptyRouteIsLegal ==
    (ValidCatalog /\ IsDenseEncoder(encoder)
        /\ \E r \in 1..Len(routes) : routes[r].examples = <<>>) =>
        /\ status # "new" => status = "ready"
        /\ (result.called /\ WellFormedQuery) =>
              /\ result.ok
              /\ \A i \in 1..Len(result.val) :
                    \A j \in 1..Len(MatchLists[i]) :
                        LET m == MatchLists[i][j]
                            rt == routes[IndexOf(m.route_name)]
                        IN  rt.examples = <<>> =>
                              /\ m.cosine_similarity = Zero
                              /\ \A h \in (j + 1)..Len(MatchLists[i]) :
                                    ~Less(Zero, MatchLists[i][h].cosine_similarity)

\* The score the router reports for a route: its best similarity, and 0.0
\* when that is below 0.
ReportedScore(q, rt) == Largest(SimsOf(q, rt) \cup {Zero})

Listed(m, name) == \E j \in 1..Len(m) : m[j].route_name = name

\* C5: routes with equal scores for a query appear in the match list in
\* catalog order, and when top_k cuts through a tie the first-defined routes
\* get the last slots; the match list is thereby fixed by catalog, encoder,
\* top_k and query.
C5_TiesInCatalogOrder ==
    (Returned /\ WellFormedQuery) =>
        \A i \in 1..Len(result.val) :
            LET m == MatchLists[i] IN
            /\ \A j, h \in 1..Len(m) :
                  (j < h /\ m[j].cosine_similarity = m[h].cosine_similarity) =>
                      IndexOf(m[j].route_name) < IndexOf(m[h].route_name)
            /\ \A r \in 1..Len(routes) : \A j \in 1..Len(m) :
                  (~Listed(m, routes[r].name)
                      /\ ReportedScore(QueryList[i], routes[r]) = m[j].cosine_similarity) =>
                      IndexOf(m[j].route_name) < r

\* C5 witness: three routes, top_k = 2, and route() returned a match list
\* whose two matches tie with each other and with the route left out.
C5_Witness ==
    /\ Returned
    /\ WellFormedQuery
    /\ Len(routes) = 3
    /\ top_k = 2
    /\ Len(result.val) = 1
    /\ LET m == MatchLists[1] IN
        /\ Len(m) = 2
        /\ m[1].cosine_similarity = m[2].cosine_similarity
        /\ m[1].route_name = routes[1].name
        /\ m[2].route_name = routes[2].name
        /\ ReportedScore(QueryList[1], routes[3]) = m[2].cosine_similarity

\* C6: a router whose top_k is below 1, given at construction or assigned
\* before the query, fails route() with an invalid-argument error and never
\* returns a match list.
C6_TopKBelowOneFails ==
    (result.called /\ WellFormedQuery /\ top_k < 1) => ~result.ok

\* The outcome of route(x) for the single query string x on the router as it is.
Alone(x) == route(encoder, router_map, top_k, [kind |-> "str", text |-> x, elems |-> <<>>])

\* C7: for a sequence qs of query strings route(qs) returns Len(qs) entries,
\* entry i carries qs[i] and the match list route(qs[i]) returns for that query
\* alone; route(qs) raises only when one of its queries raises alone.
C7_BatchIsPerQuery ==
    (result.called /\ queries.kind = "seq" /\ WellFormedQuery) =>
        /\ result.ok <=> \A i \in 1..Len(queries.elems) : Alone(queries.elems[i]).ok
        /\ result.ok =>
              /\ Len(result.val) = Len(queries.elems)
              /\ \A i \in 1..Len(result.val) :
                    /\ result.val[i].query = queries.elems[i]
                    /\ result.val[i].route = Alone(queries.elems[i]).val[1].route

\* C7 witness: route(["hello", "bye"]) returned two entries whose match lists
\* rank different routes first.
C7_Witness ==
    /\ Returned
    /\ queries.kind = "seq"
    /\ queries.elems = <<"hello", "bye">>
    /\ Len(result.val) = 2
    /\ Len(MatchLists[1]) > 0
    /\ Len(MatchLists[2]) > 0
    /\ MatchLists[1][1].route_name # MatchLists[2][1].route_name

\* C8: route() accepts a str or a sequence of strs and fails with a TypeError
\* for any other argument, without calling the encoder and without returning
\* a result.
C8_OtherInputsRaiseTypeError ==
    (result.called /\ ~WellFormedQuery) =>
        /\ ~result.ok
        /\ result.err = "TypeError"
        /\ encode_calls = <<>>

\* C9: construction with a valid catalog and an encoder that is no
\* DenseEncoder fails with a TypeError, and no encode call has been made on
\* any route's examples when it fails.
C9_InvalidEncoderFailsFirst ==
    (status # "new" /\ ValidCatalog /\ encoder \in {"DuckEncoder", "object"}) =>
        /\ status = "failed"
        /\ error = "TypeError"
        /\ encode_calls = <<>>
        /\ router_map = <<>>

\* C9 witness: a valid two-route catalog and an object that has an encode
\* method but is no DenseEncoder; construction has failed.
C9_Witness ==
    /\ status = "failed"
    /\ ValidCatalog
    /\ Len(routes) = 2
    /\ encoder = "DuckEncoder"

\* Caller c has a match list whose length is not min(k, number of routes) for
\* the k the caller assigned to SEM_ROUTER.top_k.
WrongLength(c) ==
    \E i \in 1..Len(resp[c]) : Len(resp[c][i]) # Min(local_k[c], Len(routes))

\* C10: with two callers sharing SEM_ROUTER, set top_k -> query -> reset top_k
\* is not safe: there is an interleaving in which a query reads a top_k other
\* than the one its caller set and returns a match list of the wrong length
\* (C10_Witness is reached); a wrong length arises only when another caller
\* assigned top_k between the caller's assignment and its query.
C10_WrongLengthOnlyByInterference ==
    \A c \in Callers :
        (pc[c] \in {"query", "reset", "done"} /\ WrongLength(c)) => interfered[c]

\* C10 witness: caller "a" asked for top_k = 1, assigned it, and its query
\* returned two matches.
C10_Witness ==
    /\ pc["a"] \in {"reset", "done"}
    /\ req["a"].top_k = 1
    /\ local_k["a"] = 1
    /\ Len(resp["a"]) >= 1
    /\ Len(resp["a"][1]) = 2

\* The index _initialize_router_map builds from the router's encoder and catalog.
BuiltIndex == initialize_router_map(encoder, routes).val

\* C11: once construction has returned, no step changes the catalog or the
\* index: through every sequence of route() calls, returning or raising, the
\* index is the mapping construction built (one entry per route, in catalog
\* order, with the route and the vectors of its examples), and a route() call
\* leaves top_k as it found it.
C11_IndexIsImmutable ==
    /\ [](status = "ready" =>
            /\ router_map = BuiltIndex
            /\ Len(router_map) = Len(routes)
            /\ \A i \in 1..Len(routes) :
                  /\ router_map[i].key = routes[i].name
                  /\ router_map[i].val.route = routes[i]
                  /\ router_map[i].val.encoded_examples = EncodeAll(routes[i].examples))
    /\ [][status = "ready" =>
            /\ routes' = routes
            /\ router_map' = router_map
            /\ (~result.called /\ result'.called) => top_k' = top_k]_vars

\* C11 witness: on a three-route catalog whose second route has no examples,
\* route(["hello"]) has raised from the scoring loop, after the encoder was
\* called and the first route was scored, and the index has its three entries.
C11_Witness ==
    /\ status = "ready"
    /\ result.called
    /\ ~result.ok
    /\ result.err = "ValueError: max() arg is an empty sequence"
    /\ encode_calls = <<(<<"hello">>)>>
    /\ Len(routes) = 3
    /\ routes[1].examples # <<>>
    /\ routes[2].examples = <<>>
    /\ Len(router_map) = 3

\* C12: an operation that combines two vectors of different lengths (add,
\* subtract, dot, cosine_similarity, distance with a supported metric) fails
\* with an error; it returns no value.
C12_DifferentLengthsFail ==
    (operation.name # "none" /\ Len(self_vector) # Len(other_vector)) => ~outcome.ok

\* The float 0.0 as a distance.
IsZeroDistance(d) == d.num = 0 /\ d.eps = 0

\* C13: distance(a, a, metric) == 0 for every vector a, the zero vector
\* included, and every supported metric.
C13_DistanceToSelfIsZero ==
    (operation.name = "distance" /\ operation.metric \in SupportedMetrics
        /\ self_vector = other_vector) =>
        /\ outcome.ok
        /\ IsZeroDistance(outcome.scalar)

\* Caller c's handler has finished, by returning or by raising.
Finished(c) == pc[c] \in {"done", "raised"}

\* C14: whenever a handler of the example server has finished, by returning
\* or by raising, SEM_ROUTER.top_k is DEFAULT_TOP_K again, whatever requests
\* came before; so a request without a top_k is served with DEFAULT_TOP_K, and
\* each of its match lists has min(DEFAULT_TOP_K, number of routes) matches.
C14_TopKResetAfterHandler ==
    /\ (\A c \in Callers : ~Running(c)) => top_k = DEFAULT_TOP_K
    /\ \A c \in Callers :
          (req[c].kind # "none" /\ req[c].top_k = NoOverride /\ pc[c] # "read") =>
              /\ local_k[c] = DEFAULT_TOP_K
              /\ \A i \in 1..Len(resp[c]) :
                    Len(resp[c][i]) = Min(DEFAULT_TOP_K, Len(routes))

\* C14 witness: caller "a" asked for top_k = 1 and its handler raised; caller
\* "b" asked for no top_k and got its answer, with DEFAULT_TOP_K matches.
C14_Witness ==
    /\ pc["a"] = "raised"
    /\ req["a"].top_k = 1
    /\ local_k["a"] = 1
    /\ pc["b"] = "done"
    /\ req["b"].top_k = NoOverride
    /\ Len(resp["b"]) >= 1
    /\ Len(resp["b"][1]) = DEFAULT_TOP_K
    /\ top_k = DEFAULT_TOP_K

====
